---- MODULE Spec2Model ----
(***************************************************************************)
(* A model of the DSPy prompt optimizer service: the FastAPI application   *)
(* of backend/app.py and the PromptOptimizer class of                      *)
(* backend/prompt_optimizer.py.                                            *)
(*                                                                         *)
(* Text is modelled by TLA+ strings, read character by character; scores   *)
(* are modelled in hundredths (0.52 is 52); the answers of the DSPy        *)
(* framework (and of the language model behind it) are inputs.             *)
(***************************************************************************)
EXTENDS Integers, Sequences, FiniteSets, TLC

VARIABLES
    phase,        \* "loading" while app.py is being imported, then "serving"
    env,          \* the process environment read by PromptOptimizer.__init__
    optimizer,    \* app.optimizer: None or the PromptOptimizer instance
    served,       \* how many requests were answered so far (capped)
    pc,           \* the position of the request being handled
    req,          \* the request being handled
    frame,        \* the locals of PromptOptimizer.optimize_prompt
    calls,        \* the optimizer methods and framework calls made for req
    resp,         \* the HTTP response to req
    parse_in,     \* the text handed to _parse_improvements
    parse_out     \* the list _parse_improvements returned

vars == <<phase, env, optimizer, served, pc, req, frame, calls, resp,
          parse_in, parse_out>>

(***************************************************************************)
(* Bounds of the model.                                                    *)
(***************************************************************************)
MaxServed == 2
MaxExamples == 2
MaxLines == 6

(***************************************************************************)
(* Python values.                                                          *)
(***************************************************************************)
\* A value that is a str.
Str(s) == [kind |-> "str", text |-> s]
\* An attribute a Prediction does not have (hasattr is False).
Absent == [kind |-> "absent", text |-> ""]
\* A JSON number and a JSON array, as a request body may hold them; text is
\* the value's repr.
Num(s) == [kind |-> "int", text |-> s]
List(s) == [kind |-> "list", text |-> s]
\* The character U+2022 (the bullet), which has no ASCII form.
Bullet == "@"

(***************************************************************************)
(* str: the methods of Python strings that the program uses.               *)
(***************************************************************************)
Char(s, i) == SubSeq(s, i, i)

From(s, i) == SubSeq(s, i, Len(s))

\* s[:n]
Take(s, n) == IF Len(s) <= n THEN s ELSE SubSeq(s, 1, n)

IsSpace(c) == c \in {" ", "\t", "\n", "\r", "\f"}

RECURSIVE LStrip(_)
LStrip(s) ==
    IF s = "" THEN ""
    ELSE IF IsSpace(Char(s, 1)) THEN LStrip(From(s, 2)) ELSE s

RECURSIVE RStrip(_)
RStrip(s) ==
    IF s = "" THEN ""
    ELSE IF IsSpace(Char(s, Len(s))) THEN RStrip(SubSeq(s, 1, Len(s) - 1)) ELSE s

\* s.strip()
Strip(s) == RStrip(LStrip(s))

\* s.startswith(p)
StartsWith(s, p) == Len(p) <= Len(s) /\ SubSeq(s, 1, Len(p)) = p

\* w in s
Contains(s, w) ==
    \E i \in 1..(Len(s) - Len(w) + 1) : SubSeq(s, i, i + Len(w) - 1) = w

\* s.split(c), for a separator c of one character: the text before the first
\* c, then the split of the text after it.
RECURSIVE Split(_, _)
Split(s, c) ==
    LET at == {i \in 1..Len(s) : Char(s, i) = c}
    IN  IF at = {} THEN <<s>>
        ELSE LET first == CHOOSE i \in at : \A j \in at : i <= j
             IN  <<SubSeq(s, 1, first - 1)>> \o Split(From(s, first + 1), c)

\* len(s.split()): the number of maximal runs of non-space characters
WordCount(s) ==
    Cardinality({i \in 1..Len(s) :
        /\ ~IsSpace(Char(s, i))
        /\ (i = 1 \/ IsSpace(Char(s, i - 1)))})

UpperLetters == "ABCDEFGHIJKLMNOPQRSTUVWXYZ"
LowerLetters == "abcdefghijklmnopqrstuvwxyz"

LowerChar(c) ==
    IF \E i \in 1..26 : Char(UpperLetters, i) = c
    THEN Char(LowerLetters, CHOOSE i \in 1..26 : Char(UpperLetters, i) = c)
    ELSE c

\* s.lower(), one half of the text after the other
RECURSIVE Lower(_)
Lower(s) ==
    IF Len(s) <= 1 THEN LowerChar(s)
    ELSE LET half == Len(s) \div 2
         IN  Lower(SubSeq(s, 1, half)) \o Lower(From(s, half + 1))

\* sep.join(items)
RECURSIVE Join(_, _)
Join(items, sep) ==
    IF items = <<>> THEN ""
    ELSE IF Len(items) = 1 THEN items[1]
    ELSE items[1] \o sep \o Join(Tail(items), sep)

RECURSIVE SumSeq(_)
SumSeq(ns) == IF ns = <<>> THEN 0 ELSE Head(ns) + SumSeq(Tail(ns))

Min(a, b) == IF a <= b THEN a ELSE b
Abs(a) == IF a < 0 THEN -a ELSE a

(***************************************************************************)
(* round(n/d, 2), in hundredths.  Python rounds the binary double nearest  *)
(* to n/d; when 100*n/d lies exactly half way between two integers the     *)
(* double may lie on either side, so both neighbours are possible results. *)
(***************************************************************************)
Round2(n, d) ==
    LET f == (100 * n) \div d     \* \div rounds towards minus infinity
        r == 100 * n - f * d       \* 0 <= r < d
    IN  IF 2 * r < d THEN {f}
        ELSE IF 2 * r > d THEN {f + 1}
        ELSE {f, f + 1}

(***************************************************************************)
(* PromptOptimizer: the methods that call no framework.                    *)
(***************************************************************************)

\* optimize_prompt, lines 67-74: the examples_context handed to the framework.
\* An example is a dict; a missing key reads as 'N/A'.
GetOr(example, key) == IF key \in DOMAIN example THEN example[key] ELSE "N/A"

RECURSIVE ExampleLines(_, _)
ExampleLines(examples, i) ==
    IF i > Len(examples) THEN ""
    ELSE "Example " \o ToString(i) \o ":\n"
         \o "  Input: " \o GetOr(examples[i], "input") \o "\n"
         \o "  Output: " \o GetOr(examples[i], "output") \o "\n"
         \o ExampleLines(examples, i + 1)

\* examples is None (modelled by has = FALSE) or a list of dicts.
NoExamples == [has |-> FALSE, items |-> <<>>]
Examples(items) == [has |-> TRUE, items |-> items]

\* "if examples and len(examples) > 0"
UseFewShotMutant(examples) == examples.has

UseFewShot(examples) == examples.has /\ Len(examples.items) > 0

ExamplesContext(examples) ==
    IF UseFewShot(examples)
    THEN "Consider these examples:\n" \o ExampleLines(examples.items, 1)
    ELSE ""

\* _validate_optimization: the dspy.Assert and the two dspy.Suggest calls sit
\* in a try whose "except Exception: pass" swallows whatever they raise, so
\* the method returns normally whatever the prompts are.
EmptyAssertionFails(optimized) == ~(Len(Strip(optimized)) > 0)

SuggestionFails(original, optimized) ==
    \/ ~(Strip(optimized) # Strip(original))
    \/ ~(2 * WordCount(optimized) >= WordCount(original))

ValidateOptimization(original, optimized) ==
    IF EmptyAssertionFails(optimized) \/ SuggestionFails(original, optimized)
    THEN [raised |-> FALSE, swallowed |-> TRUE]     \* except Exception: pass
    ELSE [raised |-> FALSE, swallowed |-> FALSE]

\* _parse_improvements
Prefixes == <<"- ", "* ", Bullet \o " ", "1. ", "2. ", "3. ", "4. ", "5. ">>

DefaultImprovements ==
    << "Made the prompt more specific and actionable",
       "Added clarity to expected output format",
       "Improved instruction structure" >>

\* line.isspace()
IsSpaceStr(s) == s # "" /\ \A i \in 1..Len(s) : IsSpace(Char(s, i))

\* The for loop over the prefixes, left at the first prefix that matches.
RemovePrefix(line) ==
    IF \E i \in 1..Len(Prefixes) : StartsWith(line, Prefixes[i])
    THEN LET i == CHOOSE k \in 1..Len(Prefixes) :
                    /\ StartsWith(line, Prefixes[k])
                    /\ \A j \in 1..(k - 1) : ~StartsWith(line, Prefixes[j])
         IN  From(line, Len(Prefixes[i]) + 1)
    ELSE line

RECURSIVE ParseLines(_, _)
ParseLines(lines, improvements) ==
    IF lines = <<>> THEN improvements
    ELSE LET line == Strip(Head(lines))
         IN  IF line # "" /\ ~IsSpaceStr(line)
             THEN LET cut == RemovePrefix(line)
                  IN  ParseLines(Tail(lines),
                                 IF cut # "" THEN Append(improvements, cut)
                                 ELSE improvements)
             ELSE ParseLines(Tail(lines), improvements)

FirstFive(items) == SubSeq(items, 1, Min(5, Len(items)))

ParseImprovementsMutant(improvements_text) ==
    LET found == ParseLines(Split(improvements_text, "\n"), <<>>)
    IN  IF found = <<>> THEN DefaultImprovements ELSE found

ParseImprovements(improvements_text) ==
    LET found == ParseLines(Split(improvements_text, "\n"), <<>>)
    IN  FirstFive(IF found = <<>> THEN DefaultImprovements ELSE found)

\* _generate_explanation
GenerateExplanation(original, optimized, improvements) ==
    "The prompt has been optimized to enhance clarity and effectiveness. "
    \o (IF Len(optimized) > Len(original)
        THEN "Additional context and specificity were added to guide better responses. "
        ELSE IF Len(optimized) < Len(original)
        THEN "The prompt was streamlined for conciseness while maintaining clarity. "
        ELSE "")
    \o (IF improvements # <<>>
        THEN "Key improvements include: "
             \o Join(SubSeq(improvements, 1, Min(3, Len(improvements))), ", ")
             \o ". "
        ELSE "")
    \o "These changes should result in more accurate and relevant outputs."

\* _basic_optimization
TemplateImprovements ==
    << "Added clear task definition",
       "Structured the instructions for clarity",
       "Specified output requirements",
       "Included guidance for quality response" >>

TemplateExplanation ==
    "Applied template-based optimization to structure the prompt more effectively. "
    \o "The optimized version provides clearer context and expectations for better results."

TemplateTail ==
    "\n\nPlease provide a detailed response that:\n"
    \o "1. Directly addresses the stated purpose\n"
    \o "2. Is clear and well-structured\n"
    \o "3. Includes specific examples where relevant\n"
    \o "4. Follows best practices for the given task\n"
    \o "\nOutput:"

BasicOptimizationMutant(original_prompt, purpose) ==
    [ optimized_prompt |-> "Task: " \o original_prompt \o "\n\nInstructions:\n"
                           \o purpose \o TemplateTail,
      improvements |-> TemplateImprovements,
      explanation |-> TemplateExplanation ]

BasicOptimization(original_prompt, purpose) ==
    [ optimized_prompt |-> "Task: " \o purpose \o "\n\nInstructions:\n"
                           \o original_prompt \o TemplateTail,
      improvements |-> TemplateImprovements,
      explanation |-> TemplateExplanation ]

(***************************************************************************)
(* analyze_prompt_quality and its heuristic fallback.  A score before      *)
(* rounding is a fraction <<n, d>>; a rounded score is in hundredths.      *)
(***************************************************************************)
MetricNames ==
    {"clarity_score", "specificity_score", "structure_score", "completeness_score"}

\* The prompt[:500] handed to the framework.
AnalysisLimit == 500

\* min(1.0, n/d)
MinOne(n, d) == IF n > d THEN <<d, d>> ELSE <<n, d>>

\* parse_assessment: the first keyword group with a word in the lowered text.
AnyWordIn(words, text) == \E w \in words : Contains(text, w)

ParseAssessment(assessment) ==
    LET assessment_lower == Lower(assessment)
    IN  IF AnyWordIn({"excellent", "high", "strong"}, assessment_lower) THEN <<9, 10>>
        ELSE IF AnyWordIn({"good", "clear", "adequate"}, assessment_lower) THEN <<7, 10>>
        ELSE IF AnyWordIn({"fair", "moderate", "acceptable"}, assessment_lower) THEN <<5, 10>>
        ELSE IF AnyWordIn({"poor", "weak", "unclear"}, assessment_lower) THEN <<3, 10>>
        ELSE <<5, 10>>

\* getattr(result, name, 'moderate')
GetAssessment(result, name) ==
    IF result[name].kind = "absent" THEN Str("moderate") ELSE result[name]

\* _heuristic_quality_analysis
SpecificKeywords ==
    {"specific", "exactly", "must", "should", "format", "structure", "please", "provide"}

StructureIndicators == {"\n", ":", "-", "1.", "2.", Bullet, "Step"}

HeuristicQualityAnalysis(prompt) ==
    LET sentences == Split(prompt, ".")
        words == SumSeq([i \in 1..Len(sentences) |-> WordCount(sentences[i])])
        count == IF Len(sentences) > 1 THEN Len(sentences) ELSE 1
        \* 1.0 - abs(words/count - 15) / 30
        clarity == <<30 * count - Abs(words - 15 * count), 30 * count>>
        prompt_lower == Lower(prompt)
        specificity_count ==
            Cardinality({w \in SpecificKeywords : Contains(prompt_lower, w)})
        structure_count ==
            Cardinality({m \in StructureIndicators : Contains(prompt, m)})
        word_count == WordCount(prompt)
    IN  [ clarity_score |-> MinOne(clarity[1], clarity[2]),
          specificity_score |-> MinOne(specificity_count, 4),
          structure_score |-> MinOne(structure_count, 4),
          completeness_score |-> MinOne(word_count, 50) ]

\* {k: round(v, 2) for k, v in metrics.items()}: every way the rounding can fall
RoundMetrics(metrics) ==
    LET R(k) == Round2(metrics[k][1], metrics[k][2])
    IN  { [ clarity_score |-> a, specificity_score |-> b,
            structure_score |-> c, completeness_score |-> d ] :
          a \in R("clarity_score"), b \in R("specificity_score"),
          c \in R("structure_score"), d \in R("completeness_score") }

(***************************************************************************)
(* The inputs: the environment, the requests, the framework's answers.     *)
(***************************************************************************)
\* The environment variables read at startup, and whether the framework's
\* constructors (dspy.LM, dspy.configure, dspy.ChainOfThought) work there.
Environments ==
    { [OPENAI_API_KEY |-> k, DSPY_TEMPERATURE |-> t, framework_ok |-> f] :
        k \in {"", "sk-test"}, t \in {"0.7", "warm"}, f \in BOOLEAN }

\* float(s) does not raise: digits with at most one point, and a digit.
FloatParses(s) ==
    /\ \A i \in 1..Len(s) : Contains("0123456789.", Char(s, i))
    /\ \E i \in 1..Len(s) : Contains("0123456789", Char(s, i))
    /\ Cardinality({i \in 1..Len(s) : Char(s, i) = "."}) <= 1

OriginalPrompts == {"", "Summarize this."}
Purposes == {"", "summary"}

\* The i-th example of a request: a dict with both keys, or without 'output'.
ExampleAt(i) ==
    IF i % 2 = 1 THEN [input |-> "2+2", output |-> "4"] ELSE [input |-> "hello"]

ExampleLists ==
    {NoExamples} \cup { Examples([i \in 1..n |-> ExampleAt(i)]) : n \in 0..MaxExamples }

OptimizeRequests ==
    { [endpoint |-> "/optimize", original_prompt |-> o, purpose |-> p, examples |-> e] :
        o \in OriginalPrompts, p \in Purposes, e \in ExampleLists }

RECURSIVE Repeat(_, _)
Repeat(s, n) == IF n = 0 THEN "" ELSE s \o Repeat(s, n - 1)

\* A prompt longer than AnalysisLimit characters (528 of them).
LongPrompt == Repeat("Step one: list. ", 31) \o "Stop. Please provide the format."

EmptyBody == [k \in {} |-> Str("")]

AnalyzeBodies ==
    {EmptyBody} \cup
    { [prompt |-> v] :
        v \in {Str(""), Str("Summarize this."), Str("Please list exactly 3 items - in this format: a. b"),
               Str(LongPrompt), Num("0"), Num("5"), List("['a']")} }

AnalyzeRequests == { [endpoint |-> "/analyze", body |-> b] : b \in AnalyzeBodies }

\* What a call of the base or of the compiled optimizer does: it raises, or it
\* returns a Prediction, whose two output fields may be missing.
Raise == [kind |-> "raise"]

Prediction(o, i) == [kind |-> "prediction", optimized_prompt |-> o, improvements |-> i]

ImprovedPrompt == "Summarize the text below in exactly 3 bullet points:\n- one line each"

SixImprovements == "1. Added a role\n2. Added the format\n\n- Set the length\n* Named the audience\n5. Added an example\nRemoved filler"

OptimizerAnswers ==
    {Raise} \cup
    { Prediction(o, i) :
        o \in {Absent, Str(""), Str("  \n"), Str(ImprovedPrompt)},
        i \in {Absent, Str(SixImprovements)} }

\* What the analysis ChainOfThought does.
Assessments(c, s, t, m) ==
    [ kind |-> "prediction", clarity_assessment |-> c, specificity_assessment |-> s,
      structure_assessment |-> t, completeness_assessment |-> m ]

AnalysisAnswers ==
    { Raise,
      Assessments(Str("Excellent"), Str("Good enough"), Str("fair"), Str("Poor and weak")),
      Assessments(Str("Highly unclear"), Str("Unclear"), Absent, Str("n/a")),
      Assessments(Str("POOR"), Str("moderate, not strong"), Str("weak but acceptable"), Absent) }

(***************************************************************************)
(* PromptOptimizer.__init__ and the module-level "optimizer" of app.py.    *)
(***************************************************************************)
NoneOptimizer == [none |-> TRUE]

PromptOptimizerInit(environment) ==
    IF environment.OPENAI_API_KEY = ""
    THEN [raised |-> TRUE, error |-> "OPENAI_API_KEY not found in environment variables"]
    ELSE IF ~FloatParses(environment.DSPY_TEMPERATURE)
    THEN [raised |-> TRUE, error |-> "could not convert string to float"]
    ELSE IF ~environment.framework_ok
    THEN [raised |-> TRUE, error |-> "framework error"]
    ELSE [ raised |-> FALSE,
           self |-> [ none |-> FALSE,
                      lm |-> "openai/gpt-4",
                      base_optimizer |-> "ChainOfThought(PromptOptimizationSignature)",
                      compiled_optimizer |-> "None" ] ]

\* app.py, lines 41-46: try: optimizer = PromptOptimizer() except: optimizer = None
ModuleOptimizer(environment) ==
    LET init == PromptOptimizerInit(environment)
    IN  IF init.raised THEN NoneOptimizer ELSE init.self

\* "if not optimizer"
OptimizerMissingMutant(opt) == FALSE

OptimizerMissing(opt) == opt.none

\* _optimize_with_examples keeps the compiled optimizer in a local: self is
\* left as it was.
AfterCompileMutant(self, compiled) == [self EXCEPT !.compiled_optimizer = compiled]

AfterCompile(self, compiled) == self

(***************************************************************************)
(* optimize_prompt, from the framework's last answer on: lines 88-106.     *)
(***************************************************************************)
\* The except clause: return self._basic_optimization(original_prompt, purpose)
TemplateFallback(original_prompt, purpose) ==
    LET basic == BasicOptimization(original_prompt, purpose)
    IN  [ raised |-> FALSE,
          optimized_prompt |-> basic.optimized_prompt,
          improvements |-> basic.improvements,
          explanation |-> basic.explanation,
          fallback |-> TRUE ]

\* answer is what the last framework call of the try block did.
OptimizeOutcome(original_prompt, purpose, answer) ==
    IF answer.kind = "raise"
    THEN TemplateFallback(original_prompt, purpose)
    ELSE LET optimized_prompt ==
                 IF answer.optimized_prompt.kind = "absent" THEN original_prompt
                 ELSE answer.optimized_prompt.text
             improvements_text ==
                 IF answer.improvements.kind = "absent" THEN ""
                 ELSE answer.improvements.text
             improvements == ParseImprovements(improvements_text)
         IN  IF ValidateOptimization(original_prompt, optimized_prompt).raised
             THEN TemplateFallback(original_prompt, purpose)
             ELSE [ raised |-> FALSE,
                    optimized_prompt |-> optimized_prompt,
                    improvements |-> improvements,
                    explanation |->
                        GenerateExplanation(original_prompt, optimized_prompt, improvements),
                    fallback |-> FALSE ]

(***************************************************************************)
(* analyze_prompt_quality(prompt) when the framework answers `answer`: the  *)
(* set of its outcomes (one per way the rounding can fall).  prompt is a    *)
(* value of any type: the /analyze body is an untyped dict.                 *)
(***************************************************************************)
AssessmentNames ==
    [ clarity_score |-> "clarity_assessment",
      specificity_score |-> "specificity_assessment",
      structure_score |-> "structure_assessment",
      completeness_score |-> "completeness_assessment" ]

\* prompt[:500]: a str or a list can be sliced, a number cannot.
Sliceable(prompt) == prompt.kind \in {"str", "list"}

AnalysisArg(prompt) ==
    IF prompt.kind = "str" THEN Str(Take(prompt.text, AnalysisLimit)) ELSE prompt

\* The try block returns scores: the prompt was sliced and the call returned.
AnalysisSucceeds(prompt, answer) == Sliceable(prompt) /\ answer.kind = "prediction"

\* The text the heuristic fallback scores.
FallbackTextMutant(prompt) == Take(prompt.text, AnalysisLimit)

FallbackText(prompt) == prompt.text

AnalyzePromptQuality(prompt, answer) ==
    IF AnalysisSucceeds(prompt, answer)
    THEN { [raised |-> FALSE, metrics |-> m] :
             m \in RoundMetrics(
                 [k \in MetricNames |->
                     ParseAssessment(GetAssessment(answer, AssessmentNames[k]).text)]) }
    ELSE IF prompt.kind = "str"
    THEN { [raised |-> FALSE, metrics |-> m] :
             m \in RoundMetrics(HeuristicQualityAnalysis(FallbackText(prompt))) }
    ELSE { [ raised |-> TRUE,
             error |-> "'" \o prompt.kind \o "' object has no attribute 'split'" ] }

\* An entry of the call log: a method of the optimizer or a framework call,
\* its argument, whether it raised and, for a framework call, its answer.
NoResult == [kind |-> "none"]

Call(name, arg, raised, result) ==
    [call |-> name, arg |-> arg, raised |-> raised, result |-> result]

\* The call of analyze_prompt_quality and the framework call it makes.
AnalysisCalls(prompt, answer) ==
    << Call("analyze_prompt_quality", prompt,
            ~AnalysisSucceeds(prompt, answer) /\ prompt.kind # "str", NoResult) >>
    \o (IF Sliceable(prompt)
        THEN << Call("analysis", AnalysisArg(prompt), answer.kind = "raise", answer) >>
        ELSE <<>>)

(***************************************************************************)
(* app.py: the responses.                                                  *)
(***************************************************************************)
\* raise HTTPException(status_code, detail), as http_exception_handler
\* answers it.
HttpError(status_code, detail) == [status |-> status_code, body |-> [error |-> detail]]

NoResponse == [status |-> 0, body |-> [error |-> ""]]

NoRequest == [endpoint |-> ""]

EmptyFrame ==
    [ examples_context |-> "", raised |-> FALSE, optimized_prompt |-> "",
      improvements |-> <<>>, explanation |-> "", fallback |-> FALSE ]

\* request.get("prompt", "")
GetPrompt(body) == IF "prompt" \in DOMAIN body THEN body["prompt"] ELSE Str("")

\* "if not prompt"
PromptMissing(prompt) ==
    \/ prompt.kind = "str" /\ prompt.text = ""
    \/ prompt.kind = "int" /\ prompt.text = "0"
    \/ prompt.kind = "list" /\ prompt.text = "[]"

\* round(sum(metrics.values()) / len(metrics), 2)
OverallScoreMutant(metrics) ==
    Round2(metrics.clarity_score + metrics.specificity_score
           + metrics.structure_score + metrics.completeness_score, 100)

OverallScore(metrics) ==
    Round2(metrics.clarity_score + metrics.specificity_score
           + metrics.structure_score + metrics.completeness_score,
           100 * Cardinality(DOMAIN metrics))

\* The prompt the /optimize handler has scored.
AnalyzedTextMutant(request, optimized_prompt) == request.original_prompt

AnalyzedText(request, optimized_prompt) == optimized_prompt

(***************************************************************************)
(* The state machine.  The handlers are coroutines that never await, so    *)
(* the event loop runs one request at a time; a handler is cut into steps  *)
(* only where it calls the framework, whose answer is the step's input.    *)
(***************************************************************************)
Init ==
    /\ phase = "loading"
    /\ env \in Environments
    /\ optimizer = NoneOptimizer
    /\ served = 0
    /\ pc = "idle"
    /\ req = NoRequest
    /\ frame = EmptyFrame
    /\ calls = <<>>
    /\ resp = NoResponse
    /\ parse_in = [lines |-> <<>>, text |-> ""]
    /\ parse_out = <<>>

\* The import of app.py: lines 41-46.
Startup ==
    /\ phase = "loading"
    /\ optimizer' = ModuleOptimizer(env)
    /\ phase' = "serving"
    /\ UNCHANGED <<env, served, pc, req, frame, calls, resp, parse_in, parse_out>>

\* POST /optimize, up to the first framework call: app.py lines 78-93 and
\* optimize_prompt lines 67-86.
OptimizeReceive ==
    /\ phase = "serving"
    /\ pc = "idle"
    /\ \E request \in OptimizeRequests :
        /\ req' = request
        /\ IF OptimizerMissing(optimizer)
           THEN /\ resp' = HttpError(503,
                    "Optimizer not initialized. Please check API key configuration.")
                /\ pc' = "done"
                /\ UNCHANGED <<frame, calls>>
           ELSE IF optimizer.none
           THEN \* None.optimize_prompt raises inside the handler's try
                /\ resp' = HttpError(500, "Error optimizing prompt: "
                    \o "'NoneType' object has no attribute 'optimize_prompt'")
                /\ pc' = "done"
                /\ UNCHANGED <<frame, calls>>
           ELSE /\ frame' = [EmptyFrame EXCEPT
                                !.examples_context = ExamplesContext(request.examples)]
                /\ calls' = <<Call("optimize_prompt", Str(request.original_prompt),
                                       FALSE, NoResult)>>
                /\ pc' = IF UseFewShot(request.examples) THEN "few_shot" ELSE "base"
                /\ resp' = NoResponse
    /\ UNCHANGED <<phase, env, optimizer, served, parse_in, parse_out>>

\* _optimize_with_examples, lines 129-157: BootstrapFewShot is built and
\* compiles the base optimizer, or one of the two raises.
FewShotCompile ==
    /\ pc = "few_shot"
    /\ \E compiles \in BOOLEAN :
        /\ calls' = Append(calls,
               Call("BootstrapFewShot.compile", Str(frame.examples_context), ~compiles,
                    NoResult))
        /\ IF compiles
           THEN /\ optimizer' = AfterCompile(optimizer, "compiled")
                /\ pc' = "compiled"
           ELSE /\ optimizer' = optimizer
                /\ pc' = "base"
    /\ UNCHANGED <<phase, env, served, req, frame, resp, parse_in, parse_out>>

\* optimize_prompt is over with `outcome`: the handler goes on to the metrics,
\* or its except clause answers 500 when optimize_prompt raised.
Returned(outcome) ==
    /\ frame' = [examples_context |-> frame.examples_context] @@ outcome
    /\ IF outcome.raised
       THEN /\ pc' = "done"
            /\ resp' = HttpError(500, "Error optimizing prompt: " \o "optimize_prompt raised")
       ELSE /\ pc' = "metrics"
            /\ resp' = resp

\* _optimize_with_examples, lines 160-168, and what follows a returned
\* Prediction in optimize_prompt.
CompiledCall ==
    /\ pc = "compiled"
    /\ \E answer \in OptimizerAnswers :
        /\ calls' = Append(calls,
               Call("compiled", Str(frame.examples_context), answer.kind = "raise", answer))
        /\ IF answer.kind = "raise"
           THEN /\ pc' = "base"       \* except: fall back to the base optimizer
                /\ UNCHANGED <<frame, resp>>
           ELSE Returned(OptimizeOutcome(req.original_prompt, req.purpose, answer))
    /\ UNCHANGED <<phase, env, optimizer, served, req, parse_in, parse_out>>

\* _optimize_without_examples, and the rest of optimize_prompt.
BaseCall ==
    /\ pc = "base"
    /\ \E answer \in OptimizerAnswers :
        /\ calls' = Append(calls,
               Call("base_optimizer", Str(frame.examples_context), answer.kind = "raise",
                    answer))
        /\ Returned(OptimizeOutcome(req.original_prompt, req.purpose, answer))
    /\ UNCHANGED <<phase, env, optimizer, served, req, parse_in, parse_out>>

\* POST /optimize, from the return of optimize_prompt on: app.py lines 95-115.
OptimizeRespond ==
    /\ pc = "metrics"
    /\ \E answer \in AnalysisAnswers :
        LET prompt == Str(AnalyzedText(req, frame.optimized_prompt))
        IN  /\ calls' = calls \o AnalysisCalls(prompt, answer)
            /\ \E outcome \in AnalyzePromptQuality(prompt, answer) :
                 resp' = IF outcome.raised
                         THEN HttpError(500, "Error optimizing prompt: " \o outcome.error)
                         ELSE [ status |-> 200,
                                body |-> [ optimized_prompt |-> frame.optimized_prompt,
                                           improvements |-> frame.improvements,
                                           explanation |-> frame.explanation,
                                           metrics |-> outcome.metrics,
                                           original_prompt |-> req.original_prompt ] ]
    /\ pc' = "done"
    /\ UNCHANGED <<phase, env, optimizer, served, req, frame, parse_in, parse_out>>

\* POST /analyze: app.py lines 129-153.
AnalyzePrompt ==
    /\ phase = "serving"
    /\ pc = "idle"
    /\ \E request \in AnalyzeRequests, answer \in AnalysisAnswers :
        LET prompt == GetPrompt(request.body)
        IN  /\ req' = request
            /\ IF OptimizerMissing(optimizer)
               THEN /\ resp' = HttpError(503, "Optimizer not initialized")
                    /\ calls' = <<>>
               ELSE IF PromptMissing(prompt)
               THEN /\ resp' = HttpError(500,
                        "Error analyzing prompt: " \o "No prompt provided")
                    /\ calls' = <<>>
               ELSE IF optimizer.none
               THEN /\ resp' = HttpError(500, "Error analyzing prompt: "
                        \o "'NoneType' object has no attribute 'analyze_prompt_quality'")
                    /\ calls' = <<>>
               ELSE /\ calls' = AnalysisCalls(prompt, answer)
                    /\ \E outcome \in AnalyzePromptQuality(prompt, answer) :
                         IF outcome.raised
                         THEN resp' = HttpError(500,
                                  "Error analyzing prompt: " \o outcome.error)
                         ELSE \E overall \in OverallScore(outcome.metrics) :
                                  resp' = [ status |-> 200,
                                            body |-> [ prompt |-> prompt,
                                                       metrics |-> outcome.metrics,
                                                       overall_score |-> overall ] ]
    /\ pc' = "done"
    /\ UNCHANGED <<phase, env, optimizer, served, frame, parse_in, parse_out>>

\* The response is sent and the handler is over.
Complete ==
    /\ pc = "done"
    /\ pc' = "idle"
    /\ served' = Min(served + 1, MaxServed)
    /\ req' = NoRequest
    /\ frame' = EmptyFrame
    /\ calls' = <<>>
    /\ resp' = NoResponse
    /\ UNCHANGED <<phase, env, optimizer, parse_in, parse_out>>

Next ==
    \/ Startup
    \/ OptimizeReceive
    \/ FewShotCompile
    \/ CompiledCall
    \/ BaseCall
    \/ OptimizeRespond
    \/ AnalyzePrompt
    \/ Complete

Spec == Init /\ [][Next]_vars

(***************************************************************************)
(* _parse_improvements on its own: the text is any list of at most        *)
(* MaxLines lines, joined by line breaks.                                  *)
(***************************************************************************)
ParseLineSet == {"", " \t", "plain", " 2. b ", "* 1. c"}

RECURSIVE SeqsUpTo(_, _)
SeqsUpTo(S, n) ==
    IF n = 0 THEN {<<>>}
    ELSE LET shorter == SeqsUpTo(S, n - 1)
         IN  shorter \cup { Append(q, x) : q \in {r \in shorter : Len(r) = n - 1}, x \in S }

ParseInit ==
    /\ phase = "parsing"
    /\ env = [OPENAI_API_KEY |-> "", DSPY_TEMPERATURE |-> "0.7", framework_ok |-> TRUE]
    /\ optimizer = NoneOptimizer
    /\ served = 0
    /\ pc = "parse"
    /\ req = NoRequest
    /\ frame = EmptyFrame
    /\ calls = <<>>
    /\ resp = NoResponse
    /\ \E lines \in SeqsUpTo(ParseLineSet, MaxLines) :
           parse_in = [lines |-> lines, text |-> Join(lines, "\n")]
    /\ parse_out = <<>>

ParseCall ==
    /\ pc = "parse"
    /\ parse_out' = ParseImprovements(parse_in.text)
    /\ pc' = "parsed"
    /\ UNCHANGED <<phase, env, optimizer, served, req, frame, calls, resp, parse_in>>

ParseNext == ParseCall

SpecParse == ParseInit /\ [][ParseNext]_vars

(***************************************************************************)
(* The claims.                                                             *)
(***************************************************************************)
Last(q) == q[Len(q)]

\* The calls of the few-shot compilation and of the two optimizers, in order.
OptimizerCalls ==
    SelectSeq(calls, LAMBDA c :
        c.call \in {"BootstrapFewShot.compile", "compiled", "base_optimizer"})

CallsOf(name) == SelectSeq(calls, LAMBDA c : c.call = name)

\* optimize_prompt has returned to the /optimize handler.
OptimizeReturned ==
    /\ req.endpoint = "/optimize"
    /\ pc \in {"metrics", "done"}
    /\ ~OptimizerMissing(optimizer)

\* The template of _basic_optimization around a purpose and a prompt.
IsTemplateResult(result, original_prompt, purpose) ==
    /\ result.optimized_prompt =
           "Task: " \o purpose \o "\n\nInstructions:\n" \o original_prompt
           \o "\n\nPlease provide a detailed response that:\n"
           \o "1. Directly addresses the stated purpose\n"
           \o "2. Is clear and well-structured\n"
           \o "3. Includes specific examples where relevant\n"
           \o "4. Follows best practices for the given task\n\nOutput:"
    /\ Len(result.improvements) = 4
    /\ result.improvements = TemplateImprovements
    /\ result.explanation = TemplateExplanation

(* C1: optimize_prompt never raises to its caller; when the framework calls
   fail (the last optimizer call of the try block, the base ChainOfThought
   call, raised, with or without a failed few-shot attempt before it), it
   returns the template fallback: the purpose after "Task: ", the unmodified
   original prompt after "Instructions:", the four fixed improvements and the
   fixed template explanation. *)
C1_FallbackNeverRaises ==
    /\ req.endpoint = "/optimize" => ~frame.raised
    /\ ( /\ req.endpoint = "/optimize"
         /\ OptimizerCalls # <<>>
         /\ Last(OptimizerCalls).call = "base_optimizer"
         /\ Last(OptimizerCalls).raised )
       => /\ pc \in {"metrics", "done"}
          /\ IsTemplateResult(frame, req.original_prompt, req.purpose)
          /\ pc = "done" => resp.status = 200
                            /\ resp.body.optimized_prompt = frame.optimized_prompt

\* The few-shot attempt raised, then the base call raised, and the template
\* was returned for a request with a prompt and a purpose.
C1_Witness ==
    /\ OptimizeReturned
    /\ req.original_prompt = "Summarize this."
    /\ req.purpose = "summary"
    /\ Len(OptimizerCalls) = 3
    /\ OptimizerCalls[2].raised
    /\ OptimizerCalls[3].raised
    /\ frame.fallback

\* The PromptOptimizer that __init__ builds.
FreshOptimizer ==
    [ none |-> FALSE, lm |-> "openai/gpt-4",
      base_optimizer |-> "ChainOfThought(PromptOptimizationSignature)",
      compiled_optimizer |-> "None" ]

(* C2: requests leave the shared PromptOptimizer as __init__ built it: after
   any sequence of /optimize and /analyze requests, compiled_optimizer is
   still None and lm and base_optimizer are the objects set in __init__. *)
C2_OptimizerUnchanged ==
    (phase = "serving" /\ ~optimizer.none) => optimizer = FreshOptimizer

\* A later request in which the few-shot compilation succeeded and the
\* compiled optimizer answered.
C2_Witness ==
    /\ served >= 1
    /\ pc = "done"
    /\ resp.status = 200
    /\ \E i \in 1..Len(calls) :
           calls[i].call = "BootstrapFewShot.compile" /\ ~calls[i].raised
    /\ \E i \in 1..Len(calls) : calls[i].call = "compiled" /\ ~calls[i].raised
    /\ optimizer = FreshOptimizer

(* C3: every /optimize request received while the optimizer is initialized
   is answered with a success response, never HTTP 500, whatever the
   framework calls did: the response carries optimized_prompt, improvements,
   explanation and metrics, its original_prompt is the request's, and the
   metrics are the scores of the returned optimized prompt: that prompt is
   what analyze_prompt_quality was given, its first 500 characters are what
   the framework assessed, and the heuristic scores are those of it. *)
C3_OptimizeAlwaysSucceeds ==
    (pc = "done" /\ req.endpoint = "/optimize" /\ ~OptimizerMissing(optimizer))
    => /\ resp.status = 200
       /\ DOMAIN resp.body = {"optimized_prompt", "improvements", "explanation",
                              "metrics", "original_prompt"}
       /\ resp.body.original_prompt = req.original_prompt
       /\ DOMAIN resp.body.metrics = MetricNames
       /\ Len(CallsOf("analyze_prompt_quality")) = 1
       /\ CallsOf("analyze_prompt_quality")[1].arg = Str(resp.body.optimized_prompt)
       /\ Len(CallsOf("analysis")) = 1
       /\ CallsOf("analysis")[1].arg = Str(Take(resp.body.optimized_prompt, 500))
       /\ CallsOf("analysis")[1].raised =>
              resp.body.metrics
                  \in RoundMetrics(HeuristicQualityAnalysis(resp.body.optimized_prompt))

\* Every framework call of the request raised, and the answer is a success
\* with the scores of the template, not of the original prompt.
C3_Witness ==
    /\ pc = "done"
    /\ req.endpoint = "/optimize"
    /\ req.original_prompt = "Summarize this."
    /\ resp.status = 200
    /\ \A i \in 1..Len(calls) :
           calls[i].call \in {"base_optimizer", "analysis"} => calls[i].raised
    /\ resp.body.optimized_prompt # req.original_prompt
    /\ resp.body.metrics.specificity_score = 100

\* The score of an assessment by its first matching keyword group.
GroupScore(assessment) ==
    LET text == Lower(assessment.text)
        has(words) == \E w \in words : Contains(text, w)
    IN  CASE assessment.kind = "absent" -> 50
          [] assessment.kind # "absent" /\ has({"excellent", "high", "strong"}) -> 90
          [] assessment.kind # "absent" /\ ~has({"excellent", "high", "strong"})
             /\ has({"good", "clear", "adequate"}) -> 70
          [] assessment.kind # "absent" /\ ~has({"excellent", "high", "strong"})
             /\ ~has({"good", "clear", "adequate"})
             /\ has({"fair", "moderate", "acceptable"}) -> 50
          [] assessment.kind # "absent" /\ ~has({"excellent", "high", "strong"})
             /\ ~has({"good", "clear", "adequate"})
             /\ ~has({"fair", "moderate", "acceptable"})
             /\ has({"poor", "weak", "unclear"}) -> 30
          [] OTHER -> 50

(* C4: analyze_prompt_quality, given a prompt that is a string, never raises
   and returns exactly the four scores: when the framework's analysis call
   succeeded each score is 0.9, 0.7, 0.5 or 0.3 by the first matching keyword
   group of its assessment (0.5 when none matches or the assessment is
   missing); when the call raised, the four scores are those of
   _heuristic_quality_analysis of the full prompt. *)
C4_AnalyzeNeverRaises ==
    (pc = "done" /\ CallsOf("analyze_prompt_quality") # <<>>
     /\ CallsOf("analyze_prompt_quality")[1].arg.kind = "str")
    => LET prompt == CallsOf("analyze_prompt_quality")[1].arg.text
           analysis == CallsOf("analysis")
       IN  /\ ~CallsOf("analyze_prompt_quality")[1].raised
           /\ resp.status = 200
           /\ DOMAIN resp.body.metrics = MetricNames
           /\ Len(analysis) = 1
           /\ ~analysis[1].raised =>
                  \A k \in MetricNames :
                      /\ resp.body.metrics[k] \in {90, 70, 50, 30}
                      /\ resp.body.metrics[k] =
                             GroupScore(analysis[1].result[AssessmentNames[k]])
           /\ analysis[1].raised =>
                  resp.body.metrics \in RoundMetrics(HeuristicQualityAnalysis(prompt))

\* The analysis call raised for a prompt of more than 500 characters, whose
\* last words, past the 500th character, count in the heuristic scores.
C4_Witness ==
    /\ pc = "done"
    /\ req.endpoint = "/analyze"
    /\ CallsOf("analysis") # <<>>
    /\ CallsOf("analysis")[1].raised
    /\ Len(CallsOf("analyze_prompt_quality")[1].arg.text) > 500
    /\ resp.status = 200
    /\ resp.body.metrics.specificity_score = 75

\* One leading bullet or number prefix removed.
LeadingPrefixes == {"- ", "* ", Bullet \o " ", "1. ", "2. ", "3. ", "4. ", "5. "}

WithoutPrefix(line) ==
    IF \E p \in LeadingPrefixes : StartsWith(line, p)
    THEN From(line, Len(CHOOSE p \in LeadingPrefixes : StartsWith(line, p)) + 1)
    ELSE line

(* C5: _parse_improvements returns a non-empty list of at most 5 non-empty
   strings: the first five non-blank lines of the text, in their order, each
   stripped of surrounding whitespace and of one leading bullet or number
   prefix; for a text with no non-blank line, the fixed default list of
   three improvements. *)
C5_ParseImprovements ==
    pc = "parsed"
    => LET nonblank == SelectSeq(parse_in.lines, LAMBDA l : Strip(l) # "")
           cleaned == [i \in 1..Len(nonblank) |-> WithoutPrefix(Strip(nonblank[i]))]
       IN  /\ Len(parse_out) \in 1..5
           /\ \A i \in 1..Len(parse_out) : parse_out[i] # ""
           /\ nonblank = <<>> =>
                  parse_out = << "Made the prompt more specific and actionable",
                                 "Added clarity to expected output format",
                                 "Improved instruction structure" >>
           /\ nonblank # <<>> =>
                  parse_out = SubSeq(cleaned, 1, Min(5, Len(cleaned)))

\* A text of six non-blank lines, with bullets and numbers, parsed into its
\* first five items.
C5_Witness ==
    /\ pc = "parsed"
    /\ Len(parse_in.lines) >= 6
    /\ Len(SelectSeq(parse_in.lines, LAMBDA l : Strip(l) # "")) >= 6
    /\ parse_in.lines[1] = "* 1. c"
    /\ parse_in.lines[5] = " 2. b "
    /\ Len(parse_out) = 5
    /\ parse_out[1] = "1. c"
    /\ parse_out[5] = "b"

(* C6: optimize_prompt never returns an optimized prompt that is empty or
   whitespace-only: an empty optimized_prompt from the framework makes the
   template fallback be returned instead. *)
C6_OptimizedNeverEmpty ==
    OptimizeReturned => Strip(frame.optimized_prompt) # ""

\* The request carries a non-empty examples list.
HasExamples == req.examples.has /\ Len(req.examples.items) > 0

(* C7: the fallback chain of optimize_prompt is ordered.  With a non-empty
   examples list the few-shot compilation comes first, the compiled optimizer
   is called only after it compiled, the base optimizer is called only after
   the few-shot attempt raised, and the template fallback is used only after
   the base call raised.  With examples absent or empty the few-shot
   compilation is never attempted and the base optimizer is called exactly
   once, with an empty examples_context. *)
C7_FallbackChainOrdered ==
    (req.endpoint = "/optimize" /\ ~OptimizerMissing(optimizer))
    => LET oc == OptimizerCalls
       IN  /\ frame.fallback =>
                  Last(oc).call = "base_optimizer" /\ Last(oc).raised
           /\ OptimizeReturned /\ ~frame.fallback => ~Last(oc).raised
           /\ HasExamples =>
                  /\ pc \notin {"idle", "few_shot"} =>
                         oc # <<>> /\ oc[1].call = "BootstrapFewShot.compile"
                  /\ \A i \in 1..Len(oc) :
                         /\ oc[i].call = "BootstrapFewShot.compile" => i = 1
                         /\ oc[i].call = "compiled" => i = 2 /\ ~oc[1].raised
                         /\ oc[i].call = "base_optimizer" =>
                                /\ i > 1
                                /\ oc[i - 1].raised
                                /\ oc[i - 1].call # "base_optimizer"
                                /\ i = Len(oc)
           /\ ~HasExamples =>
                  /\ \A i \in 1..Len(oc) : oc[i].call = "base_optimizer"
                  /\ Len(oc) <= 1
                  /\ OptimizeReturned =>
                         Len(oc) = 1 /\ oc[1].arg = Str("")

\* The compilation succeeded, the compiled optimizer raised, and the base
\* optimizer then answered: no template.
C7_Witness ==
    /\ OptimizeReturned
    /\ HasExamples
    /\ Len(OptimizerCalls) = 3
    /\ ~OptimizerCalls[1].raised
    /\ OptimizerCalls[2].call = "compiled"
    /\ OptimizerCalls[2].raised
    /\ OptimizerCalls[3].call = "base_optimizer"
    /\ ~OptimizerCalls[3].raised
    /\ ~frame.fallback

\* PromptOptimizer() fails in this environment.
StartupFails ==
    \/ env.OPENAI_API_KEY = ""
    \/ env.DSPY_TEMPERATURE \notin {"0.7"}
    \/ ~env.framework_ok

(* C8: when the optimizer failed to initialize at startup (OPENAI_API_KEY
   not set, for one), the application still serves, the optimizer stays None
   for the rest of the process, and every /optimize and /analyze request is
   answered 503 with an "Optimizer not initialized" error, without a call of
   an optimizer method or of the framework. *)
C8_UninitializedAnswers503 ==
    (phase = "serving" /\ StartupFails)
    => /\ optimizer = NoneOptimizer
       /\ pc \in {"idle", "done"}
       /\ calls = <<>>
       /\ pc = "done" =>
              /\ resp.status = 503
              /\ DOMAIN resp.body = {"error"}
              /\ StartsWith(resp.body.error, "Optimizer not initialized")

\* A second request, to /analyze with a prompt, answered 503 without the key.
C8_Witness ==
    /\ phase = "serving"
    /\ env.OPENAI_API_KEY = ""
    /\ served >= 1
    /\ pc = "done"
    /\ req.endpoint = "/analyze"
    /\ GetPrompt(req.body) = Str("Summarize this.")
    /\ resp.status = 503

\* An /analyze request was answered while the optimizer is initialized.
AnalyzeAnswered ==
    pc = "done" /\ req.endpoint = "/analyze" /\ ~OptimizerMissing(optimizer)

\* The body has no 'prompt' key, or an empty 'prompt'.
NoPromptGiven ==
    \/ "prompt" \notin DOMAIN req.body
    \/ req.body["prompt"] \in {Str(""), Num("0"), List("[]")}

\* The answer to a prompt: the prompt, its four metrics and their mean.
AnsweredWithMetrics ==
    /\ resp.status = 200
    /\ DOMAIN resp.body = {"prompt", "metrics", "overall_score"}
    /\ resp.body.prompt = req.body["prompt"]
    /\ DOMAIN resp.body.metrics = MetricNames
    /\ CallsOf("analyze_prompt_quality") # <<>>
    /\ LET m == resp.body.metrics
           sum == m.clarity_score + m.specificity_score
                  + m.structure_score + m.completeness_score
       IN  \* the mean rounded to two decimals, in hundredths
           /\ 2 * (4 * resp.body.overall_score - sum) <= 4
           /\ 2 * (sum - 4 * resp.body.overall_score) <= 4

AnsweredNoPrompt ==
    /\ resp.status = 500
    /\ resp.body = [error |-> "Error analyzing prompt: No prompt provided"]
    /\ calls = <<>>

(* C9, for a prompt of any JSON type: with the optimizer initialized, an
   /analyze request with
   no 'prompt' key or an empty 'prompt' is answered 500, 'Error analyzing
   prompt: No prompt provided', without a call of analyze_prompt_quality; a
   request with a non-empty prompt is answered with that prompt, its four
   metrics and overall_score, their mean rounded to two decimals. *)
C9_AnalyzeAsStated ==
    AnalyzeAnswered =>
        IF NoPromptGiven THEN AnsweredNoPrompt ELSE AnsweredWithMetrics

(* C9, for string prompts: with the optimizer initialized, an /analyze
   request with no 'prompt' key or an empty 'prompt' is answered 500, 'Error
   analyzing prompt: No prompt provided', without a call of
   analyze_prompt_quality; a request whose prompt is a non-empty string is
   answered with that prompt, its four metrics and overall_score, their mean
   rounded to two decimals. *)
C9_AnalyzeStringPrompt ==
    AnalyzeAnswered =>
        /\ NoPromptGiven => AnsweredNoPrompt
        /\ (~NoPromptGiven /\ req.body["prompt"].kind = "str") => AnsweredWithMetrics

\* A string prompt answered with heuristic metrics whose mean needs rounding.
C9_Witness ==
    /\ AnalyzeAnswered
    /\ req.body = [prompt |-> Str("Summarize this.")]
    /\ resp.status = 200
    /\ CallsOf("analysis")[1].raised
    /\ (resp.body.metrics.clarity_score + resp.body.metrics.specificity_score
        + resp.body.metrics.structure_score + resp.body.metrics.completeness_score) % 4 # 0
====
